---------------------------- MODULE Spec2Model ----------------------------
(***************************************************************************)
(* envelope-signal (src/index.js): a piecewise-linear signal kept as an    *)
(* array of Breakpoint objects, with pick (interpolation), the structural  *)
(* mutators addBreakpoint / deleteBreakpoint / sortBreakpoints and the     *)
(* signal algebra add / multiply / invert / subtract.                      *)
(*                                                                         *)
(* src/index.js holds two classes one after the other: EnvelopeSignal      *)
(* (lines 1-219) and BreakpointEnvelope (lines 220-333).  Each assigns     *)
(* module.exports; the assignment of line 333 is the one that stands.      *)
(*                                                                         *)
(* JavaScript numbers are binary floating point, rounded to nearest, ties  *)
(* to even.  The model keeps that arithmetic with a significand of         *)
(* Precision bits over a smallest quantum of 2^-FracBits; a finite number  *)
(* is the count n of quanta it holds.  Overflow to Infinity and the sign   *)
(* of zero are not modelled.                                               *)
(***************************************************************************)
EXTENDS Integers, Sequences, FiniteSets, TLC

\* ------------------------------------------------------------- bounds
\* Bits of significand of the modelled floating-point numbers.
Precision == 3
\* The quantum is 2^-FracBits: the number 1 is 2^FracBits quanta.
FracBits == 2
\* Length of the list handed to the constructor of the envelope under test.
MaxList == 3
\* Length of the lists the two operands of the signal algebra are made from.
MaxOperandList == 2

\* ------------------------------------------------------------ numbers
Unit == 2^FracBits

Fin(n) == [k |-> "fin", n |-> n]
NaN == [k |-> "nan", n |-> 0]
PosInf == [k |-> "inf", n |-> 1]
NegInf == [k |-> "inf", n |-> -1]
Undefined == [k |-> "undefined", n |-> 0]

IsUndefined(x) == x.k = "undefined"

AbsInt(i) == IF i < 0 THEN -i ELSE i
SignInt(i) == IF i < 0 THEN -1 ELSE IF i > 0 THEN 1 ELSE 0

\* a/d (a >= 0, d > 0) to the nearest integer, a tie to the even one.
RoundHalfEven(a, d) ==
  LET q == a \div d
      r == a % d
  IN IF 2 * r < d THEN q
     ELSE IF 2 * r > d THEN q + 1
     ELSE IF q % 2 = 0 THEN q ELSE q + 1

\* a/d (a >= 0, d > 0) to the nearest number of Precision significant bits.
RECURSIVE RoundMag(_, _)
RoundMag(a, d) ==
  IF a < (2^Precision) * d THEN RoundHalfEven(a, d) ELSE 2 * RoundMag(a, 2 * d)

\* The float nearest to the exact quotient n/d (d # 0), in quanta.
Round(n, d) == Fin(SignInt(n) * SignInt(d) * RoundMag(AbsInt(n), AbsInt(d)))

\* The sign of an infinity or of a finite number.
SignOf(x) == SignInt(x.n)

Neg(x) == IF x.k \in {"fin", "inf"} THEN [x EXCEPT !.n = -x.n] ELSE NaN

\* Math.abs
Abs(x) == IF x.k \in {"fin", "inf"} THEN [x EXCEPT !.n = AbsInt(x.n)] ELSE NaN

\* x + y
Plus(x, y) ==
  IF x.k \notin {"fin", "inf"} \/ y.k \notin {"fin", "inf"} THEN NaN
  ELSE IF x.k = "inf" /\ y.k = "inf" THEN (IF x.n = y.n THEN x ELSE NaN)
  ELSE IF x.k = "inf" THEN x
  ELSE IF y.k = "inf" THEN y
  ELSE Round(x.n + y.n, 1)

\* x - y
Minus(x, y) == Plus(x, Neg(y))

\* x * y
Times(x, y) ==
  IF x.k \notin {"fin", "inf"} \/ y.k \notin {"fin", "inf"} THEN NaN
  ELSE IF x.k = "inf" \/ y.k = "inf"
       THEN (IF SignOf(x) * SignOf(y) = 0 THEN NaN
             ELSE IF SignOf(x) * SignOf(y) > 0 THEN PosInf ELSE NegInf)
  ELSE Round(x.n * y.n, Unit)

\* x / y
Divide(x, y) ==
  IF x.k \notin {"fin", "inf"} \/ y.k \notin {"fin", "inf"} THEN NaN
  ELSE IF x.k = "inf" /\ y.k = "inf" THEN NaN
  ELSE IF x.k = "inf"
       THEN (IF SignOf(x) * SignOf(y) < 0 THEN NegInf ELSE PosInf)
  ELSE IF y.k = "inf" THEN Fin(0)
  ELSE IF y.n = 0
       THEN (IF x.n = 0 THEN NaN ELSE IF x.n > 0 THEN PosInf ELSE NegInf)
  ELSE Round(x.n * Unit, y.n)

\* x < y : false when either is NaN or undefined
Less(x, y) ==
  /\ x.k \in {"fin", "inf"}
  /\ y.k \in {"fin", "inf"}
  /\ IF x.k = "inf" /\ y.k = "inf" THEN x.n < y.n
     ELSE IF x.k = "inf" THEN x.n < 0
     ELSE IF y.k = "inf" THEN y.n > 0
     ELSE x.n < y.n

\* x == y on numbers: NaN equals nothing
Equals(x, y) ==
  /\ x.k \in {"fin", "inf"}
  /\ y.k \in {"fin", "inf"}
  /\ x.k = y.k
  /\ x.n = y.n

Greater(x, y) == Less(y, x)
LessEq(x, y) == Less(x, y) \/ Equals(x, y)
GreaterEq(x, y) == Less(y, x) \/ Equals(x, y)

Zero == Fin(0)
One == Fin(Unit)
MinusOne == Fin(-Unit)

\* ------------------------------------------------------------- values
\* What a call returns: false/true, a number, a Breakpoint, an envelope
\* object (by reference) or undefined.
RetBool(b) == [t |-> "boolean", v |-> b]
RetNumber(x) == [t |-> "number", v |-> x]
RetBreakpoint(bp) == [t |-> "Breakpoint", v |-> bp]
RetEnvelope(ref) == [t |-> "envelope", v |-> ref]
RetUndefined == [t |-> "undefined", v |-> FALSE]

\* function lerp(value1, value2, factor)
lerp(value1, value2, factor) ==
  Plus(Times(value1, Minus(One, factor)), Times(value2, factor))

\* function Breakpoint(position, value); both are given in every call
\* the model makes, so neither throw is taken.
Breakpoint(position, value) == [position |-> position, value |-> value]

\* One statement after another: v is evaluated once and its value handed
\* to what follows.
Then(v, F(_)) == CHOOSE y \in {F(x) : x \in {v}} : TRUE

\* The heap: envelope objects and the Array objects their breakpoints
\* fields refer to.  A reference is an index; 0 refers to nothing.
EmptyHeap == [envelopes |-> << >>, arrays |-> << >>]

\* this.breakpoints = []; this.defaultValue = 0;
NewObject(h, cls) ==
  [h |-> [envelopes |-> Append(h.envelopes,
                               [cls |-> cls,
                                breakpoints |-> Len(h.arrays) + 1,
                                defaultValue |-> Zero]),
          arrays |-> Append(h.arrays, << >>)],
   ret |-> RetEnvelope(Len(h.envelopes) + 1)]

\* this.breakpoints of the object this refers to
BreakpointsOf(h, this) == h.arrays[h.envelopes[this].breakpoints]

\* ---------------------------------------------------- EnvelopeSignal
\* FindLeft without the test breakpoint.position > left.position: the
\* last breakpoint in array order at or below the position, as if the
\* array were sorted
RECURSIVE FindLeft_LastInOrder(_, _, _, _)
FindLeft_LastInOrder(bps, i, left, position) ==
  IF i > Len(bps) THEN left
  ELSE FindLeft_LastInOrder(bps, i + 1,
                IF LessEq(bps[i].position, position) THEN bps[i] ELSE left,
                position)

\* first loop of pick: the closest breakpoint on the left
RECURSIVE FindLeft(_, _, _, _)
FindLeft(bps, i, left, position) ==
  IF i > Len(bps) THEN left
  ELSE FindLeft(bps, i + 1,
                IF Greater(bps[i].position, left.position)
                   /\ LessEq(bps[i].position, position)
                THEN bps[i] ELSE left,
                position)

\* FindRight with >= for >, the comparison of the other class
RECURSIVE FindRight_Inclusive(_, _, _, _)
FindRight_Inclusive(bps, i, right, position) ==
  IF i > Len(bps) THEN right
  ELSE FindRight_Inclusive(bps, i + 1,
                 IF Less(bps[i].position, right.position)
                    /\ GreaterEq(bps[i].position, position)
                 THEN bps[i] ELSE right,
                 position)

\* second loop of EnvelopeSignal.prototype.pick: strictly on the right
RECURSIVE FindRight(_, _, _, _)
FindRight(bps, i, right, position) ==
  IF i > Len(bps) THEN right
  ELSE FindRight(bps, i + 1,
                 IF Less(bps[i].position, right.position)
                    /\ Greater(bps[i].position, position)
                 THEN bps[i] ELSE right,
                 position)

\* EnvelopeSignal.prototype.pick on the array and default value of this
pickIn(bps, defaultValue, position) ==
  LET left == FindLeft(bps, 1, Breakpoint(NegInf, defaultValue), position)
      right == FindRight(bps, 1, Breakpoint(PosInf, defaultValue), position)
      factor == Divide(Minus(position, left.position),
                       Abs(Minus(right.position, left.position)))
  IN IF Equals(left.position, NegInf) THEN right.value
     ELSE IF Equals(right.position, PosInf) THEN left.value
     ELSE lerp(left.value, right.value, factor)

pick(h, this, position) ==
  pickIn(BreakpointsOf(h, this), h.envelopes[this].defaultValue, position)

\* breakpointExists returning false from inside the loop: only the first
\* breakpoint is compared
breakpointExists_FirstOnly(h, this, position) ==
  /\ Len(BreakpointsOf(h, this)) > 0
  /\ Equals(BreakpointsOf(h, this)[1].position, position)

\* EnvelopeSignal.prototype.breakpointExists
breakpointExists(h, this, position) ==
  \E i \in 1..Len(BreakpointsOf(h, this)) :
     Equals(BreakpointsOf(h, this)[i].position, position)

\* EnvelopeSignal.prototype.addBreakpoint
addBreakpoint(h, this, position, value) ==
  LET val == IF IsUndefined(value) THEN pick(h, this, position) ELSE value
      newBreakpoint == Breakpoint(position, val)
      arr == h.envelopes[this].breakpoints
  IN IF breakpointExists(h, this, position)
     THEN [h |-> h, ret |-> RetBool(FALSE)]
     ELSE [h |-> [h EXCEPT !.arrays[arr] = Append(@, newBreakpoint)],
           ret |-> RetBreakpoint(newBreakpoint)]

\* Array.prototype.splice(start, deleteCount), start >= 0: deleteCount is
\* clamped to 0 .. length - start
Splice(arr, start, deleteCount) ==
  LET from == IF start > Len(arr) THEN Len(arr) ELSE start
      room == Len(arr) - from
      count == IF deleteCount < 0 THEN 0
               ELSE IF deleteCount > room THEN room ELSE deleteCount
  IN SubSeq(arr, 1, from) \o SubSeq(arr, from + count + 1, Len(arr))

\* An object handed to deleteBreakpoint is the Breakpoint stored at index
\* obj.index (from 0) of Array obj.array, or one stored nowhere
\* (obj.array = 0).  Every stored Breakpoint is created for its one push
\* (lines 90-92), so no object is stored twice.
IndexOf(h, arr, obj) == IF obj.array = arr THEN obj.index ELSE -1

ArgNumber(i) == [t |-> "number", index |-> i, array |-> 0]
ArgObject(arr, i) == [t |-> "object", index |-> i, array |-> arr]
ArgUndefined == [t |-> "undefined", index |-> 0, array |-> 0]

\* EnvelopeSignal.prototype.deleteBreakpoint
deleteBreakpoint(h, this, breakpoint) ==
  LET arr == h.envelopes[this].breakpoints
  IN IF breakpoint.t = "number"
     THEN [h |-> [h EXCEPT !.arrays[arr] = Splice(@, 1, breakpoint.index)],
           ret |-> RetBool(TRUE)]
     ELSE IF breakpoint.t = "object"
     THEN [h |-> [h EXCEPT !.arrays[arr] =
                              Splice(@, 1, IndexOf(h, arr, breakpoint))],
           ret |-> RetBool(TRUE)]
     ELSE [h |-> h, ret |-> RetBool(FALSE)]

\* Array.prototype.sort(compare): x goes behind every y it does not
\* precede (a stable insertion)
RECURSIVE InsertSorted(_, _)
InsertSorted(sorted, x) ==
  IF sorted = << >> THEN << x >>
  ELSE LET last == sorted[Len(sorted)]
       IN IF Less(Minus(x.position, last.position), Zero)
          THEN Append(InsertSorted(SubSeq(sorted, 1, Len(sorted) - 1), x), last)
          ELSE Append(sorted, x)

RECURSIVE SortByPosition(_)
SortByPosition(arr) ==
  IF arr = << >> THEN << >>
  ELSE InsertSorted(SortByPosition(SubSeq(arr, 1, Len(arr) - 1)), arr[Len(arr)])

\* sortBreakpoints without the sort
sortBreakpoints_Unsorted(h, this) == [h |-> h, ret |-> RetEnvelope(this)]

\* EnvelopeSignal.prototype.sortBreakpoints
sortBreakpoints(h, this) ==
  [h |-> [h EXCEPT !.arrays[h.envelopes[this].breakpoints] = SortByPosition(@)],
   ret |-> RetEnvelope(this)]

\* the loop of the constructor: addBreakpoint for each pair of the list
RECURSIVE AddEach(_, _, _, _)
AddEach(h, this, list, i) ==
  IF i > Len(list) THEN h
  ELSE Then(addBreakpoint(h, this, list[i][1], list[i][2]).h,
            LAMBDA h1 : AddEach(h1, this, list, i + 1))

\* function EnvelopeSignal(breakpoints)
EnvelopeSignal(h, breakpoints) ==
  Then(NewObject(h, "EnvelopeSignal"),
       LAMBDA made : [h |-> AddEach(made.h, made.ret.v, breakpoints, 1),
                      ret |-> made.ret])

\* What is handed to add, multiply, subtract or invert: a number, an
\* envelope object or nothing.
ArgNum(x) == [t |-> "number", num |-> x, ref |-> 0]
ArgEnv(ref) == [t |-> "object", num |-> NaN, ref |-> ref]
ArgNone == [t |-> "undefined", num |-> NaN, ref |-> 0]

\* manipulator instanceof EnvelopeSignal
InstanceOfEnvelopeSignal(h, manipulator) ==
  /\ manipulator.t = "object"
  /\ manipulator.ref \in 1..Len(h.envelopes)
  /\ h.envelopes[manipulator.ref].cls = "EnvelopeSignal"

\* loop of add(number): result.addBreakpoint(position, value + manipulator)
\* for the breakpoints i..n of this
RECURSIVE AddShifted(_, _, _, _, _, _)
AddShifted(h, result, this, manipulator, i, n) ==
  IF i > n \/ i > Len(BreakpointsOf(h, this)) THEN h
  ELSE Then(addBreakpoint(h, result, BreakpointsOf(h, this)[i].position,
                          Plus(BreakpointsOf(h, this)[i].value, manipulator)).h,
            LAMBDA h1 : AddShifted(h1, result, this, manipulator, i + 1, n))

\* loops of add(envelope): result.addBreakpoint(position,
\* value + other.pick(position)) for the breakpoints i..n of from
RECURSIVE AddPicked(_, _, _, _, _, _)
AddPicked(h, result, from, other, i, n) ==
  IF i > n \/ i > Len(BreakpointsOf(h, from)) THEN h
  ELSE Then(addBreakpoint(h, result, BreakpointsOf(h, from)[i].position,
                          Plus(BreakpointsOf(h, from)[i].value,
                               pick(h, other, BreakpointsOf(h, from)[i].position))).h,
            LAMBDA h1 : AddPicked(h1, result, from, other, i + 1, n))

\* the envelope branch of add: thisAdded and manipulatorAdded are made
\* and left empty
AddEnvelope(h, result, this, manipulator) ==
  Then(EnvelopeSignal(h, << >>), LAMBDA thisAdded :
  Then(AddPicked(thisAdded.h, result, this, manipulator, 1,
                 Len(BreakpointsOf(thisAdded.h, this))), LAMBDA h1 :
  Then(EnvelopeSignal(h1, << >>), LAMBDA manipulatorAdded :
  AddPicked(manipulatorAdded.h, result, manipulator, this, 1,
            Len(BreakpointsOf(manipulatorAdded.h, manipulator))))))

\* EnvelopeSignal.prototype.add
add(h, this, manipulator) ==
  Then(EnvelopeSignal(h, << >>), LAMBDA made :
  Then(IF manipulator.t = "number"
       THEN AddShifted(made.h, made.ret.v, this, manipulator.num, 1,
                       Len(BreakpointsOf(made.h, this)))
       ELSE IF InstanceOfEnvelopeSignal(made.h, manipulator)
       THEN AddEnvelope(made.h, made.ret.v, this, manipulator.ref)
       ELSE made.h, LAMBDA filled :
  sortBreakpoints(filled, made.ret.v)))

\* loop of multiply(number)
RECURSIVE AddScaled(_, _, _, _, _, _)
AddScaled(h, result, this, manipulator, i, n) ==
  IF i > n \/ i > Len(BreakpointsOf(h, this)) THEN h
  ELSE Then(addBreakpoint(h, result, BreakpointsOf(h, this)[i].position,
                          Times(BreakpointsOf(h, this)[i].value, manipulator)).h,
            LAMBDA h1 : AddScaled(h1, result, this, manipulator, i + 1, n))

\* multiply scaling the breakpoints of this where they are and returning
\* this
multiply_InPlace(h, this, manipulator) ==
  IF manipulator.t = "number"
  THEN [h |-> [h EXCEPT !.arrays[h.envelopes[this].breakpoints] =
                 [i \in 1..Len(@) |->
                    Breakpoint(@[i].position, Times(@[i].value, manipulator.num))]],
        ret |-> RetEnvelope(this)]
  ELSE [h |-> h, ret |-> RetEnvelope(this)]

\* EnvelopeSignal.prototype.multiply
multiply(h, this, manipulator) ==
  Then(EnvelopeSignal(h, << >>), LAMBDA made :
  IF manipulator.t = "number"
  THEN [h |-> AddScaled(made.h, made.ret.v, this, manipulator.num, 1,
                        Len(BreakpointsOf(made.h, this))),
        ret |-> made.ret]
  ELSE made)

\* EnvelopeSignal.prototype.invert with no origin: typeof origin is not
\* 'number', the else branch
invertAroundZero(h, this) == multiply(h, this, ArgNum(MinusOne))

\* EnvelopeSignal.prototype.subtract; manipulator.invert() is the call
\* with no origin
subtract(h, this, manipulator) ==
  IF manipulator.t = "number"
  THEN add(h, this, ArgNum(Neg(manipulator.num)))
  ELSE IF InstanceOfEnvelopeSignal(h, manipulator)
  THEN Then(invertAroundZero(h, manipulator.ref), LAMBDA inverted :
            add(inverted.h, this, ArgEnv(inverted.ret.v)))
  ELSE [h |-> h, ret |-> RetUndefined]

\* invert without the closing add(origin)
invert_NoShiftBack(h, this, origin) ==
  IF origin.t = "number"
  THEN Then(subtract(h, this, origin), LAMBDA lowered :
            multiply(lowered.h, lowered.ret.v, ArgNum(MinusOne)))
  ELSE invertAroundZero(h, this)

\* EnvelopeSignal.prototype.invert
invert(h, this, origin) ==
  IF origin.t = "number"
  THEN Then(subtract(h, this, origin), LAMBDA lowered :
       Then(multiply(lowered.h, lowered.ret.v, ArgNum(MinusOne)), LAMBDA flipped :
       add(flipped.h, flipped.ret.v, origin)))
  ELSE invertAroundZero(h, this)

\* ------------------------------------------------ BreakpointEnvelope
\* function BreakpointEnvelope(breakpoints): the list is not read
BreakpointEnvelope(h, breakpoints) == NewObject(h, "BreakpointEnvelope")

\* second loop of BreakpointEnvelope.prototype.pick: on the right or at
\* the position
RECURSIVE BreakpointEnvelope_FindRight(_, _, _, _)
BreakpointEnvelope_FindRight(bps, i, right, position) ==
  IF i > Len(bps) THEN right
  ELSE BreakpointEnvelope_FindRight(bps, i + 1,
                 IF Less(bps[i].position, right.position)
                    /\ GreaterEq(bps[i].position, position)
                 THEN bps[i] ELSE right,
                 position)

\* the interpolation factor of BreakpointEnvelope.prototype.pick
BreakpointEnvelope_factor(bps, defaultValue, position) ==
  LET left == FindLeft(bps, 1, Breakpoint(NegInf, defaultValue), position)
      right == BreakpointEnvelope_FindRight(bps, 1,
                  Breakpoint(PosInf, defaultValue), position)
  IN Divide(Minus(position, left.position),
            Abs(Minus(right.position, left.position)))

\* BreakpointEnvelope.prototype.pick
BreakpointEnvelope_pick(h, this, position) ==
  LET bps == BreakpointsOf(h, this)
      defaultValue == h.envelopes[this].defaultValue
      left == FindLeft(bps, 1, Breakpoint(NegInf, defaultValue), position)
      right == BreakpointEnvelope_FindRight(bps, 1,
                  Breakpoint(PosInf, defaultValue), position)
      factor == BreakpointEnvelope_factor(bps, defaultValue, position)
  IN IF Equals(left.position, NegInf) THEN right.value
     ELSE IF Equals(right.position, PosInf) THEN left.value
     ELSE Plus(Times(left.value, Minus(One, factor)), Times(right.value, factor))

\* BreakpointEnvelope.prototype.exists
BreakpointEnvelope_exists(h, this, position) ==
  \E i \in 1..Len(BreakpointsOf(h, this)) :
     Equals(BreakpointsOf(h, this)[i].position, position)

\* BreakpointEnvelope.prototype.add
BreakpointEnvelope_add(h, this, position, value) ==
  LET val == IF IsUndefined(value)
             THEN BreakpointEnvelope_pick(h, this, position) ELSE value
      newBreakpoint == Breakpoint(position, val)
      arr == h.envelopes[this].breakpoints
  IN IF BreakpointEnvelope_exists(h, this, position)
     THEN [h |-> h, ret |-> RetBool(FALSE)]
     ELSE [h |-> [h EXCEPT !.arrays[arr] = Append(@, newBreakpoint)],
           ret |-> RetBreakpoint(newBreakpoint)]

\* BreakpointEnvelope.prototype.delete
BreakpointEnvelope_delete(h, this, breakpoint) ==
  LET arr == h.envelopes[this].breakpoints
  IN IF breakpoint.t = "number"
     THEN [h |-> [h EXCEPT !.arrays[arr] = Splice(@, 1, breakpoint.index)],
           ret |-> RetBool(TRUE)]
     ELSE IF breakpoint.t = "object"
     THEN [h |-> [h EXCEPT !.arrays[arr] =
                              Splice(@, 1, IndexOf(h, arr, breakpoint))],
           ret |-> RetBool(TRUE)]
     ELSE [h |-> h, ret |-> RetBool(FALSE)]

\* module.exports is assigned at line 219 and again at line 333: a
\* require of index.js gets the value assigned last.
ModuleExports == << "EnvelopeSignal", "BreakpointEnvelope" >>
Exported == ModuleExports[Len(ModuleExports)]

\* new X(breakpoints) for the constructor named cls
Construct(h, cls, breakpoints) ==
  IF cls = "EnvelopeSignal" THEN EnvelopeSignal(h, breakpoints)
  ELSE BreakpointEnvelope(h, breakpoints)

\* ---------------------------------------------------- garbage
RankIn(S, x) == Cardinality({y \in S : y <= x})
NthOf(S, i) == CHOOSE x \in S : RankIn(S, x) = i

\* After a call returns, the objects it made and did not return
\* (thisAdded, manipulatorAdded, the intermediate envelopes of invert and
\* subtract) are unreachable.  Of r = [h, ret] keep the envelopes in keep
\* and the returned one, with the arrays they refer to.
Collect(r, keep) ==
  LET keepE == keep \cup (IF r.ret.t = "envelope" THEN {r.ret.v} ELSE {})
      keepA == {r.h.envelopes[e].breakpoints : e \in keepE}
  IN [h |-> [envelopes |->
               [i \in 1..Cardinality(keepE) |->
                  [r.h.envelopes[NthOf(keepE, i)]
                     EXCEPT !.breakpoints = RankIn(keepA, @)]],
             arrays |->
               [i \in 1..Cardinality(keepA) |-> r.h.arrays[NthOf(keepA, i)]]],
      ret |-> IF r.ret.t = "envelope"
              THEN RetEnvelope(RankIn(keepE, r.ret.v)) ELSE r.ret]

\* ------------------------------------------------------------ inputs
Positions == {Zero, One, Fin(2 * Unit)}
\* 2^Precision + 2 quanta: the smallest float whose neighbours are two
\* quanta away
Values == {One, Fin(2^Precision + 2)}
Queries == Positions \cup {Fin(Unit \div 2), PosInf, NegInf}
Scalars == {Fin(1)}

RECURSIVE ListsUpTo(_)
ListsUpTo(n) ==
  IF n = 0 THEN {<< >>}
  ELSE LET shorter == ListsUpTo(n - 1)
       IN shorter \cup {Append(l, << p, v >>) :
                          l \in {s \in shorter : Len(s) = n - 1},
                          p \in Positions, v \in Values}

\* ------------------------------------------------------------- state
VARIABLES
  heap,   \* the envelope objects the caller holds and their arrays
  call,   \* the last call made: its name, its receiver and its arguments
  ret,    \* what the last call returned
  pre     \* the heap as that call found it

vars == << heap, call, ret, pre >>

Envelopes(cls) ==
  {e \in 1..Len(heap.envelopes) : heap.envelopes[e].cls = cls}

\* The caller holds what it held plus what the call returned.
Return(r, c) ==
  \E done \in {r} :
     \E kept \in {Collect(done, 1..Len(heap.envelopes))} :
        /\ heap' = kept.h
        /\ ret' = kept.ret
        /\ call' = c
        /\ pre' = heap

\* var signal = new X(list), X one of the two constructors
Init ==
  \E cls \in {"EnvelopeSignal", "BreakpointEnvelope"}, list \in ListsUpTo(MaxList) :
     \E r \in {Construct(EmptyHeap, cls, list)} :
        /\ heap = r.h
        /\ ret = r.ret
        /\ call = [op |-> "new", cls |-> cls, list |-> list]
        /\ pre = EmptyHeap

\* e.pick(position)
Pick ==
  \E this \in Envelopes("EnvelopeSignal"), position \in Queries :
     Return([h |-> heap, ret |-> RetNumber(pick(heap, this, position))],
            [op |-> "pick", this |-> this, position |-> position])

\* e.addBreakpoint(position, value) and e.addBreakpoint(position), e in on
AddBreakpointOn(on, values) ==
  \E this \in on, position \in Positions, value \in values :
     Return(addBreakpoint(heap, this, position, value),
            [op |-> "addBreakpoint", this |-> this, position |-> position,
             value |-> value])

\* What deleteBreakpoint may be handed: an index, valid or one past the
\* end, a Breakpoint stored in this envelope, one stored nowhere, nothing.
DeleteArgs(this) ==
  LET arr == heap.envelopes[this].breakpoints
      n == Len(heap.arrays[arr])
  IN {ArgNumber(i) : i \in 0..n}
       \cup {ArgObject(arr, i) : i \in 0..(n - 1)}
       \cup {ArgObject(0, 0), ArgUndefined}

\* e.deleteBreakpoint(breakpoint), e in on
DeleteBreakpointOn(on) ==
  \E this \in on :
     \E breakpoint \in DeleteArgs(this) :
        Return(deleteBreakpoint(heap, this, breakpoint),
               [op |-> "deleteBreakpoint", this |-> this, arg |-> breakpoint])

\* e.sortBreakpoints(), e in on
SortBreakpointsOn(on) ==
  \E this \in on :
     Return(sortBreakpoints(heap, this),
            [op |-> "sortBreakpoints", this |-> this])

AddBreakpoint ==
  AddBreakpointOn(Envelopes("EnvelopeSignal"), Values \cup {Undefined})
DeleteBreakpoint == DeleteBreakpointOn(Envelopes("EnvelopeSignal"))
SortBreakpoints == SortBreakpointsOn(Envelopes("EnvelopeSignal"))

\* e.pick(position), e a BreakpointEnvelope
BE_Pick ==
  \E this \in Envelopes("BreakpointEnvelope"), position \in Queries :
     Return([h |-> heap,
             ret |-> RetNumber(BreakpointEnvelope_pick(heap, this, position))],
            [op |-> "pick", this |-> this, position |-> position])

\* e.add(position, value) and e.add(position), e a BreakpointEnvelope
BE_Add ==
  \E this \in Envelopes("BreakpointEnvelope"), position \in Positions,
     value \in Values \cup {Undefined} :
     Return(BreakpointEnvelope_add(heap, this, position, value),
            [op |-> "add", this |-> this, position |-> position,
             value |-> value])

\* e.delete(breakpoint), e a BreakpointEnvelope
BE_Delete ==
  \E this \in Envelopes("BreakpointEnvelope") :
     \E breakpoint \in DeleteArgs(this) :
        Return(BreakpointEnvelope_delete(heap, this, breakpoint),
               [op |-> "delete", this |-> this, arg |-> breakpoint])

Next ==
  \/ Pick
  \/ AddBreakpoint
  \/ DeleteBreakpoint
  \/ SortBreakpoints
  \/ BE_Pick
  \/ BE_Add
  \/ BE_Delete

Spec == Init /\ [][Next]_vars

\* ------------------------------------------------- the signal algebra
\* var signal1 = new EnvelopeSignal(list1), signal2 = new
\* EnvelopeSignal(list2): the two operands, objects 1 and 2
InitAlgebra ==
  \E list1 \in ListsUpTo(MaxOperandList), list2 \in ListsUpTo(MaxOperandList) :
     \E r1 \in {EnvelopeSignal(EmptyHeap, list1)} :
        \E r2 \in {EnvelopeSignal(r1.h, list2)} :
           /\ heap = r2.h
           /\ ret = r2.ret
           /\ call = [op |-> "new", cls |-> "EnvelopeSignal"]
           /\ pre = r2.h

\* Object 1 is the receiver of the call; InitAlgebra makes every pair of
\* operands both ways round.
Operands == {1, 2}
Receivers == {1}
Manipulators == {ArgNum(k) : k \in Scalars} \cup {ArgEnv(e) : e \in Operands}
                  \cup {ArgNone}
AlgebraOps == {"add", "multiply", "invert", "subtract"}

\* var result = ...: the one call of the algebra a run makes.  The caller
\* then holds the two operands and the envelope the call returned.
Assign(r, c) ==
  /\ Len(heap.envelopes) = Cardinality(Operands)
  /\ Return(r, c)

\* result = a.add(manipulator)
Add ==
  \E this \in Receivers, manipulator \in Manipulators :
     Assign(add(heap, this, manipulator),
            [op |-> "add", this |-> this, arg |-> manipulator])

\* result = a.multiply(manipulator)
Multiply ==
  \E this \in Receivers, manipulator \in Manipulators :
     Assign(multiply(heap, this, manipulator),
            [op |-> "multiply", this |-> this, arg |-> manipulator])

\* result = a.invert(origin) and a.invert()
Invert ==
  \E this \in Receivers, origin \in {ArgNum(k) : k \in Scalars} \cup {ArgNone} :
     Assign(invert(heap, this, origin),
            [op |-> "invert", this |-> this, arg |-> origin])

\* result = a.subtract(manipulator)
Subtract ==
  \E this \in Receivers, manipulator \in Manipulators :
     Assign(subtract(heap, this, manipulator),
            [op |-> "subtract", this |-> this, arg |-> manipulator])

\* The envelope the last call returned, when it is the result of the
\* algebra (or that result, sorted again).
Returned ==
  IF ret.t = "envelope" /\ ret.v \notin Operands THEN {ret.v} ELSE {}

\* result.addBreakpoint(...), result.deleteBreakpoint(...),
\* result.sortBreakpoints(): the caller changes the envelope it was handed
ResultAddBreakpoint == AddBreakpointOn(Returned, {One})
ResultDeleteBreakpoint == DeleteBreakpointOn(Returned)
ResultSortBreakpoints == SortBreakpointsOn(Returned)

NextAlgebra ==
  \/ Add
  \/ Multiply
  \/ Invert
  \/ Subtract
  \/ ResultAddBreakpoint
  \/ ResultDeleteBreakpoint
  \/ ResultSortBreakpoints

SpecAlgebra == InitAlgebra /\ [][NextAlgebra]_vars

\* =============================================================== claims
ClassOf(e) == heap.envelopes[e].cls
Bps(e) == BreakpointsOf(heap, e)
PreBps(e) == BreakpointsOf(pre, e)
PairsOf(bps) == {bps[i] : i \in 1..Len(bps)}
PositionsOf(bps) == {bps[i].position : i \in 1..Len(bps)}
Ascending(bps) ==
  \A i \in 1..(Len(bps) - 1) : Less(bps[i].position, bps[i + 1].position)

\* The last call was e.pick(q) on an EnvelopeSignal.
PickCalled == call.op = "pick" /\ ClassOf(call.this) = "EnvelopeSignal"

\* The breakpoint of the set S with the smallest / the greatest position.
Lowest(S) == CHOOSE b \in S : \A c \in S : LessEq(b.position, c.position)
Highest(S) == CHOOSE b \in S : \A c \in S : GreaterEq(b.position, c.position)

\* The reference of C1 as the claim states it, on the set S of breakpoints:
\* left is the nearest breakpoint at or below q, right the nearest at or
\* above q, and the outer values apply only when no breakpoint is at or
\* below q, or none at or above it.
ReferenceInclusive(S, defaultValue, q) ==
  LET below == {b \in S : LessEq(b.position, q)}
      above == {b \in S : GreaterEq(b.position, q)}
      left == Highest(below)
      right == Lowest(above)
      f == Divide(Minus(q, left.position), Minus(right.position, left.position))
  IN IF S = {} THEN defaultValue
     ELSE IF below = {} THEN Lowest(S).value
     ELSE IF above = {} THEN Highest(S).value
     ELSE Plus(Times(left.value, Minus(One, f)), Times(right.value, f))

\* The reference as amended: right is the nearest breakpoint strictly above
\* q, and the greatest breakpoint's value applies when none is above q.
Reference(S, defaultValue, q) ==
  LET below == {b \in S : LessEq(b.position, q)}
      above == {b \in S : Greater(b.position, q)}
      left == Highest(below)
      right == Lowest(above)
      f == Divide(Minus(q, left.position), Minus(right.position, left.position))
  IN IF S = {} THEN defaultValue
     ELSE IF below = {} THEN Lowest(S).value
     ELSE IF above = {} THEN Highest(S).value
     ELSE Plus(Times(left.value, Minus(One, f)), Times(right.value, f))

\* C1 as stated: pick(q) returns the reference result with both bounds
\* inclusive, a function of the set of breakpoints alone, and leaves the
\* envelope as it was.  It fails where q is the position of a breakpoint:
\* the stated reference interpolates a breakpoint with itself (0/0).
C1_AsStated ==
  PickCalled =>
    /\ ret.v = ReferenceInclusive(PairsOf(PreBps(call.this)),
                                  pre.envelopes[call.this].defaultValue,
                                  call.position)
    /\ heap = pre

\* C1 amended: pick(q) returns defaultValue for an empty envelope, the
\* value of the smallest-position breakpoint when none has position <= q,
\* the value of the greatest-position breakpoint when none has position
\* > q, and otherwise the interpolation between the nearest breakpoint at
\* or below q and the nearest strictly above q; the result depends on the
\* set of breakpoints only, and the envelope is left unchanged.
C1_PickIsReference ==
  PickCalled =>
    /\ ret.v = Reference(PairsOf(PreBps(call.this)),
                         pre.envelopes[call.this].defaultValue,
                         call.position)
    /\ heap = pre

\* pick interpolated strictly between two breakpoints of an array that is
\* not in position order, to a value that is neither neighbour's
C1_Witness ==
  /\ PickCalled
  /\ Len(Bps(call.this)) = 3
  /\ ~Ascending(Bps(call.this))
  /\ call.position \notin PositionsOf(Bps(call.this))
  /\ \E b \in PairsOf(Bps(call.this)) : Less(b.position, call.position)
  /\ \E b \in PairsOf(Bps(call.this)) : Greater(b.position, call.position)
  /\ \A b \in PairsOf(Bps(call.this)) : b.value # ret.v

\* C2: pick at the position of a breakpoint returns exactly that
\* breakpoint's value, be it the first, an interior, the last or the only
\* one.
C2_PickAtBreakpoint ==
  PickCalled =>
    \A i \in 1..Len(PreBps(call.this)) :
       Equals(PreBps(call.this)[i].position, call.position)
         => ret.v = PreBps(call.this)[i].value

\* pick at the position of an interior breakpoint whose neighbours hold
\* another value
C2_Witness ==
  /\ PickCalled
  /\ \E b \in PairsOf(Bps(call.this)) :
        /\ Equals(b.position, call.position)
        /\ \E l \in PairsOf(Bps(call.this)) :
              Less(l.position, b.position) /\ l.value # b.value
        /\ \E r \in PairsOf(Bps(call.this)) :
              Greater(r.position, b.position) /\ r.value # b.value

\* The last call was an insertion, of either class.
InsertCalled == call.op \in {"addBreakpoint", "add"}

\* C4: no two breakpoints of an envelope share a position, and an
\* insertion at a position that holds a breakpoint returns false and
\* leaves the breakpoints (count, positions, values, order) unchanged.
C4_UniquePositions ==
  /\ \A e \in 1..Len(heap.envelopes) :
        \A i, j \in 1..Len(Bps(e)) :
           Equals(Bps(e)[i].position, Bps(e)[j].position) => i = j
  /\ (InsertCalled /\ call.position \in PositionsOf(PreBps(call.this)))
        => (ret = RetBool(FALSE) /\ heap = pre)

\* an insertion with no value given, at a position already taken, in an
\* envelope of three breakpoints
C4_Witness ==
  /\ InsertCalled
  /\ ClassOf(call.this) = "EnvelopeSignal"
  /\ IsUndefined(call.value)
  /\ call.position \in PositionsOf(PreBps(call.this))
  /\ Len(Bps(call.this)) = 3
  /\ ret.t = "boolean"

\* The last call was a deletion, of either class.
DeleteCalled == call.op \in {"deleteBreakpoint", "delete"}

\* The index (from 0) of the entry a deletion designates: the valid index
\* given, or the index of the stored Breakpoint given; -1 when neither.
Designated ==
  IF call.arg.t = "number" /\ call.arg.index \in 0..(Len(PreBps(call.this)) - 1)
  THEN call.arg.index
  ELSE IF call.arg.t = "object"
          /\ call.arg.array = pre.envelopes[call.this].breakpoints
  THEN call.arg.index
  ELSE -1

\* bps without its entry at index i (from 0)
Without(bps, i) == SubSeq(bps, 1, i) \o SubSeq(bps, i + 2, Len(bps))

\* C5: a deletion given a valid index or a stored Breakpoint removes
\* exactly that entry and returns true.
C5_DeletesDesignated ==
  (DeleteCalled /\ Designated >= 0) =>
    /\ ret = RetBool(TRUE)
    /\ Len(Bps(call.this)) = Len(PreBps(call.this)) - 1
    /\ Bps(call.this) = Without(PreBps(call.this), Designated)

\* C6: a deletion given a Breakpoint object that is not stored in the
\* envelope leaves the breakpoints unchanged and returns false.
C6_DeleteUnknownFails ==
  (DeleteCalled /\ call.arg.t = "object"
     /\ call.arg.array # pre.envelopes[call.this].breakpoints) =>
    /\ heap = pre
    /\ ret = RetBool(FALSE)

\* The pairs of a list that are the first of their position.
FirstOccurrences(list) ==
  {Breakpoint(list[i][1], list[i][2]) :
     i \in {k \in 1..Len(list) :
              \A j \in 1..(k - 1) : ~Equals(list[j][1], list[k][1])}}

\* C7: the envelope the exported constructor makes from a list holds one
\* breakpoint for each distinct position of the list, with the value of
\* that position's first occurrence, and no other.
C7_ExportedConstructorKeepsList ==
  (call.op = "new" /\ call.cls = Exported) =>
    /\ PairsOf(Bps(ret.v)) = FirstOccurrences(call.list)
    /\ Len(Bps(ret.v)) = Cardinality(FirstOccurrences(call.list))

\* the same of the constructor EnvelopeSignal, which does read its list
C7_EnvelopeSignalKeepsList ==
  (call.op = "new" /\ call.cls = "EnvelopeSignal") =>
    /\ PairsOf(Bps(ret.v)) = FirstOccurrences(call.list)
    /\ Len(Bps(ret.v)) = Cardinality(FirstOccurrences(call.list))

\* C10: BreakpointEnvelope.pick at the position of a breakpoint does not
\* compute its factor as 0/0 and returns that breakpoint's value.
C10_InclusivePickAtBreakpoint ==
  (call.op = "pick" /\ ClassOf(call.this) = "BreakpointEnvelope") =>
    \A i \in 1..Len(PreBps(call.this)) :
       Equals(PreBps(call.this)[i].position, call.position)
         => /\ BreakpointEnvelope_factor(PreBps(call.this),
                                         pre.envelopes[call.this].defaultValue,
                                         call.position) # NaN
            /\ ret.v = PreBps(call.this)[i].value

\* ------------------------------------------- claims on the algebra
\* The value of the breakpoint of bps at position p.
ValueAt(bps, p) == (CHOOSE b \in PairsOf(bps) : b.position = p).value

\* The last call was a.add(b), b an EnvelopeSignal.
AddEnvelopeCalled ==
  call.op = "add" /\ InstanceOfEnvelopeSignal(pre, call.arg)

\* C3: a.add(b) holds one breakpoint for each position of a or of b, in
\* ascending order of position; at a position of a its value is a's
\* value there plus b.pick(p), at a position of b only it is b's value
\* there plus a.pick(p).
C3_AddMerges ==
  AddEnvelopeCalled =>
    LET a == PreBps(call.this)
        b == PreBps(call.arg.ref)
        r == Bps(ret.v)
    IN /\ PositionsOf(r) = PositionsOf(a) \cup PositionsOf(b)
       /\ Len(r) = Cardinality(PositionsOf(r))
       /\ Ascending(r)
       /\ \A i \in 1..Len(r) :
             r[i].value =
               IF r[i].position \in PositionsOf(a)
               THEN Plus(ValueAt(a, r[i].position),
                         pick(pre, call.arg.ref, r[i].position))
               ELSE Plus(ValueAt(b, r[i].position),
                         pick(pre, call.this, r[i].position))

\* a.add(b) with a stored out of order, a position in both, one in a
\* only and one in b only
C3_Witness ==
  /\ AddEnvelopeCalled
  /\ ~Ascending(PreBps(call.this))
  /\ PositionsOf(PreBps(call.this)) \cap PositionsOf(PreBps(call.arg.ref)) # {}
  /\ PositionsOf(PreBps(call.this)) \ PositionsOf(PreBps(call.arg.ref)) # {}
  /\ PositionsOf(PreBps(call.arg.ref)) \ PositionsOf(PreBps(call.this)) # {}
  /\ Len(Bps(ret.v)) = 3

\* C8: add, subtract, multiply and invert leave their operands as they
\* were (the object, its array, its default value), what they return is
\* an object the caller did not hold, with an array of its own, and a
\* later change of the returned envelope leaves the operands as they
\* were.
C8_OperandsUntouched ==
  /\ \A e, f \in 1..Len(heap.envelopes) :
        heap.envelopes[e].breakpoints = heap.envelopes[f].breakpoints => e = f
  /\ call.op # "new" =>
        \A e \in Operands :
           /\ heap.envelopes[e] = pre.envelopes[e]
           /\ Bps(e) = PreBps(e)
  /\ (call.op \in AlgebraOps /\ ret.t = "envelope") =>
        ret.v \notin 1..Len(pre.envelopes)

\* the returned envelope was given a breakpoint of its own after the call
C8_Witness ==
  /\ call.op = "addBreakpoint"
  /\ call.this \notin Operands
  /\ ret.t = "Breakpoint"
  /\ Len(Bps(call.this)) = 3
  /\ Len(Bps(1)) = 2
  /\ Len(Bps(2)) = 2

Two == Fin(2 * Unit)

\* The last call was e.invert(o), o a number.
InvertCalled == call.op = "invert" /\ call.arg.t = "number"

\* C9 as stated: e.invert(o) has the positions of e and
\* e.invert(o).pick(p) == 2*o - e.pick(p) at each of them.  In floating
\* point the two sides round differently.
C9_AsStated ==
  InvertCalled =>
    /\ PositionsOf(Bps(ret.v)) = PositionsOf(PreBps(call.this))
    /\ \A p \in PositionsOf(Bps(ret.v)) \cup PositionsOf(PreBps(call.this)) :
          pick(heap, ret.v, p)
            = Minus(Times(Two, call.arg.num), pick(pre, call.this, p))

\* C9 amended: e.invert(o) has the positions of e and
\* e.invert(o).pick(p) == ((e.pick(p) - o) * -1) + o at each of them, as
\* the numbers compute it; that is 2*o - e.pick(p) where the subtraction
\* and the addition are exact.
C9_InvertMirrors ==
  InvertCalled =>
    /\ PositionsOf(Bps(ret.v)) = PositionsOf(PreBps(call.this))
    /\ \A p \in PositionsOf(Bps(ret.v)) \cup PositionsOf(PreBps(call.this)) :
          pick(heap, ret.v, p)
            = Plus(Times(Minus(pick(pre, call.this, p), call.arg.num), MinusOne),
                   call.arg.num)

\* e.invert(o) on two breakpoints stored out of order, one of them where
\* e.pick(p) - o is rounded
C9_Witness ==
  /\ InvertCalled
  /\ Len(PreBps(call.this)) = 2
  /\ ~Ascending(PreBps(call.this))
  /\ \E p \in PositionsOf(PreBps(call.this)) :
        pick(heap, ret.v, p)
          # Minus(Times(Two, call.arg.num), pick(pre, call.this, p))
  /\ \E p \in PositionsOf(PreBps(call.this)) :
        pick(heap, ret.v, p)
          = Minus(Times(Two, call.arg.num), pick(pre, call.this, p))

=============================================================================
